---------------------------- MODULE Spec2Model ----------------------------
(***************************************************************************)
(* A model of src/ebay_speaker_scraper.py: the scraper's run (main and     *)
(* scrape_listings), and its pure parts (parse_price, is_quality_brand,    *)
(* the deal score, deduplicate, the ranking and the report selection).     *)
(*                                                                         *)
(* Text is a sequence of one-character strings, so that lowercasing,       *)
(* containment, prefix tests, the price pattern and the split at "?" are   *)
(* computed character by character, as the code's string operations do.    *)
(* A float is [kind |-> "float", m, e], the number m / 10^e with m not a   *)
(* multiple of 10 unless e = 0; binary rounding is not modelled.           *)
(***************************************************************************)
EXTENDS Integers, Sequences, FiniteSets, TLC

VARIABLES
    pc,            \* position of the run in main / scrape_listings
    query_ix,      \* index into SEARCH_QUERIES of main's loop
    page,          \* scrape_listings' loop variable
    listings,      \* scrape_listings' local list
    all_listings,  \* main's list
    requests,      \* the outbound requests issued so far, in order
    last_event,    \* "start", "fetch" or "sleep": the last of requests.get / time.sleep
    examined,      \* number of candidate nodes on the pages fetched so far
    scraped,       \* all_listings as it was when the query loop ended
    unique,        \* the list deduplicate returned
    top,           \* main's top
    shown,         \* the rows the report loop printed
    runs,          \* how often deduplicate, the sort and the report have run
    text,          \* parse_price's argument
    price,         \* parse_price's outcome
    item           \* the candidate node under examination when the item loop stopped early

vars == << pc, query_ix, page, listings, all_listings, requests, last_event,
           examined, scraped, unique, top, shown, runs, text, price, item >>

---------------------------------------------------------------------------
(* Bounds of the model. *)

\* Longest price text drawn exhaustively for parse_price.
MaxLen == 4

---------------------------------------------------------------------------
(* Python's str operations, on sequences of characters. *)

LowerOf ==
    ("A" :> "a") @@ ("B" :> "b") @@ ("C" :> "c") @@ ("D" :> "d") @@ ("E" :> "e") @@ ("F" :> "f")
    @@ ("G" :> "g") @@ ("H" :> "h") @@ ("I" :> "i") @@ ("J" :> "j") @@ ("K" :> "k") @@ ("L" :> "l")
    @@ ("M" :> "m") @@ ("N" :> "n") @@ ("O" :> "o") @@ ("P" :> "p") @@ ("Q" :> "q") @@ ("R" :> "r")
    @@ ("S" :> "s") @@ ("T" :> "t") @@ ("U" :> "u") @@ ("V" :> "v") @@ ("W" :> "w") @@ ("X" :> "x")
    @@ ("Y" :> "y") @@ ("Z" :> "z")

\* str.lower, one character.
LowerChar(c) == IF c \in DOMAIN LowerOf THEN LowerOf[c] ELSE c

\* str.lower
lower(s) == [i \in 1..Len(s) |-> LowerChar(s[i])]

\* sub in s
Contains(s, sub) ==
    \E i \in 0..(Len(s) - Len(sub)) : \A j \in 1..Len(sub) : s[i + j] = sub[j]

\* s.startswith(prefix)
startswith(s, prefix) ==
    /\ Len(prefix) <= Len(s)
    /\ \A j \in 1..Len(prefix) : s[j] = prefix[j]

\* s.replace(ch, "") for a one-character ch
replace(s, ch) == SelectSeq(s, LAMBDA c : c # ch)

Range(s) == {s[i] : i \in 1..Len(s)}

\* s[a:b] with 1-based inclusive bounds
Slice(s, a, b) == [i \in 1..(b - a + 1) |-> s[a + i - 1]]

Digits == {"0", "1", "2", "3", "4", "5", "6", "7", "8", "9"}

DigitValue ==
    ("0" :> 0) @@ ("1" :> 1) @@ ("2" :> 2) @@ ("3" :> 3) @@ ("4" :> 4)
    @@ ("5" :> 5) @@ ("6" :> 6) @@ ("7" :> 7) @@ ("8" :> 8) @@ ("9" :> 9)

RECURSIVE Pow10(_)
Pow10(n) == IF n = 0 THEN 1 ELSE 10 * Pow10(n - 1)

---------------------------------------------------------------------------
(* Floats and None. *)

None == [kind |-> "None", m |-> 0, e |-> 0]

\* The outcome of a call that raised ValueError instead of returning.
ValueError == [kind |-> "ValueError", m |-> 0, e |-> 0]

RECURSIVE Normalize(_, _)
Normalize(m, e) ==
    IF e > 0 /\ m % 10 = 0 THEN Normalize(m \div 10, e - 1)
    ELSE [kind |-> "float", m |-> m, e |-> e]

\* The number m / 10^e.
Float(m, e) == Normalize(m, e)

FloatLt(a, b) == a.m * Pow10(b.e) < b.m * Pow10(a.e)

FloatLe(a, b) == a.m * Pow10(b.e) <= b.m * Pow10(a.e)

\* The value of a string of decimal digits (0 for the empty string).
RECURSIVE DecimalValue(_)
DecimalValue(s) ==
    IF s = <<>> THEN 0
    ELSE 10 * DecimalValue(SubSeq(s, 1, Len(s) - 1)) + DigitValue[s[Len(s)]]

\* float(s) for a string of digits with at most one ".": Python accepts "12", "12.",
\* ".5" and "1.5", and raises ValueError for "" and ".".
float(s) ==
    LET ds == SelectSeq(s, LAMBDA c : c \in Digits)
        dots == {i \in 1..Len(s) : s[i] = "."}
    IN  IF ds = <<>> THEN ValueError
        ELSE Float(DecimalValue(ds),
                   IF dots = {} THEN 0 ELSE Len(s) - (CHOOSE i \in dots : TRUE))

---------------------------------------------------------------------------
(* parse_price *)

\* The end of the longest run of characters of `set` that starts at s[i]
\* (i - 1 when s[i] is not in `set`): a greedy [..]*.
RECURSIVE RunEnd(_, _, _)
RunEnd(s, i, set) ==
    IF i <= Len(s) /\ s[i] \in set THEN RunEnd(s, i + 1, set) ELSE i - 1

\* Whether \$[\d,]+\.?\d* matches at s[i]: only "$" and one character of [\d,]
\* are required.
MatchesAt(s, i) ==
    /\ i + 1 <= Len(s)
    /\ s[i] = "$"
    /\ s[i + 1] \in Digits \cup {","}

\* The end of the greedy match that starts at s[i].
MatchEnd(s, i) ==
    LET a == RunEnd(s, i + 1, Digits \cup {","})
        b == IF a + 1 <= Len(s) /\ s[a + 1] = "." THEN a + 1 ELSE a
    IN  RunEnd(s, b + 1, Digits)

\* re.findall(r"\$[\d,]+\.?\d*", s) from position i on: the non-overlapping
\* matches, leftmost first.
RECURSIVE FindAllFrom(_, _)
FindAllFrom(s, i) ==
    IF i > Len(s) THEN <<>>
    ELSE IF MatchesAt(s, i)
         THEN << Slice(s, i, MatchEnd(s, i)) >> \o FindAllFrom(s, MatchEnd(s, i) + 1)
         ELSE FindAllFrom(s, i + 1)

findall(s) == FindAllFrom(s, 1)

parse_price(s) ==
    LET prices == findall(s)
    IN  IF prices = <<>> THEN None
        ELSE float(replace(replace(prices[1], "$"), ","))

---------------------------------------------------------------------------
(* Configuration. *)

SEARCH_QUERIES ==
    << "surround sound speaker system 5.1",
       "surround sound speaker set 7.1",
       "home theater speaker system",
       "surround sound speaker package high end" >>

QUALITY_BRANDS ==
    << <<"b", "o", "s", "e">>,
       <<"s", "o", "n", "o", "s">>,
       <<"k", "l", "i", "p", "s", "c", "h">>,
       <<"p", "o", "l", "k">>,
       <<"y", "a", "m", "a", "h", "a">>,
       <<"d", "e", "n", "o", "n">>,
       <<"s", "o", "n", "y">>,
       <<"j", "b", "l">>,
       <<"h", "a", "r", "m", "a", "n", " ", "k", "a", "r", "d", "o", "n">>,
       <<"s", "a", "m", "s", "u", "n", "g">>,
       <<"l", "g">>,
       <<"o", "n", "k", "y", "o">>,
       <<"p", "i", "o", "n", "e", "e", "r">>,
       <<"d", "e", "f", "i", "n", "i", "t", "i", "v", "e", " ", "t", "e", "c", "h", "n", "o", "l", "o", "g", "y">>,
       <<"s", "v", "s">>,
       <<"k", "e", "f">>,
       <<"b", "&", "w">>,
       <<"b", "o", "w", "e", "r", "s">>,
       <<"p", "a", "r", "a", "d", "i", "g", "m">>,
       <<"m", "a", "r", "t", "i", "n", " ", "l", "o", "g", "a", "n">>,
       <<"e", "l", "a", "c">>,
       <<"m", "o", "n", "o", "p", "r", "i", "c", "e">>,
       <<"v", "i", "z", "i", "o">>,
       <<"e", "n", "c", "l", "a", "v", "e">> >>

MAX_PRICE == 500

MIN_PRICE == 50

\* scrape_listings' max_pages, as main passes it.
max_pages == 2

\* The score from which a listing counts as a top deal.
TopScore == 3

\* The number of ranked listings shown when no listing is a top deal.
FallbackRows == 15

\* The most rows the report prints.
DisplayRows == 20

\* The URL of a (query, page) pair, as the parameters that vary and the fixed
\* filters: nothing but the query is encoded and nothing reads the URL back.
build_url(query, p) ==
    [ nkw |-> query, pgn |-> p, udlo |-> MIN_PRICE, udhi |-> MAX_PRICE,
      bin |-> 1, sop |-> 15 ]

---------------------------------------------------------------------------
(* The deal score and the listing of one candidate node. *)

is_quality_brand(title) ==
    LET lower_title == lower(title)
    IN  \E k \in 1..Len(QUALITY_BRANDS) : Contains(lower_title, QUALITY_BRANDS[k])

Free == <<"f", "r", "e", "e">>

New == <<"n", "e", "w">>

OpenBox == <<"o", "p", "e", "n", " ", "b", "o", "x">>

NA == <<"N", "/", "A">>

ShopOnEbay == <<"s", "h", "o", "p", " ", "o", "n", " ", "e", "b", "a", "y">>

\* price_bonus with <= for <: a price of exactly 200 or 350 gets the higher bonus.
price_bonus_inclusive(p) ==
    IF FloatLe(p, Float(200, 0)) THEN 2
    ELSE IF FloatLe(p, Float(350, 0)) THEN 1
    ELSE 0

\* The price tier of lines 120-123: if price < 200 ... elif price < 350.
price_bonus(p) ==
    IF FloatLt(p, Float(200, 0)) THEN 2
    ELSE IF FloatLt(p, Float(350, 0)) THEN 1
    ELSE 0

\* Lines 115-125, from brand_match and free_shipping as lines 113-114 set them.
deal_score(brand_match, free_shipping, p, condition) ==
    (IF brand_match THEN 3 ELSE 0)
    + (IF free_shipping THEN 2 ELSE 0)
    + price_bonus(p)
    + (IF Contains(lower(condition), New) \/ Contains(lower(condition), OpenBox)
       THEN 1 ELSE 0)

\* Lines 113-135: the dict appended to listings.
make_listing(title, p, shipping, condition, link) ==
    LET brand_match   == is_quality_brand(title)
        free_shipping == Contains(lower(shipping), Free)
    IN  [ title |-> title, price |-> p, shipping |-> shipping,
          condition |-> condition, link |-> link,
          brand_match |-> brand_match,
          deal_score |-> deal_score(brand_match, free_shipping, p, condition) ]

\* An element select_one found, with its text; NoEl when it returned None.
El(t) == [found |-> TRUE, text |-> t]

NoEl == [found |-> FALSE, text |-> <<>>]

\* The a.s-item__link element: found or not, with or without an href.
LinkEl(href) == [found |-> TRUE, has_href |-> TRUE, href |-> href]

LinkNoHref == [found |-> TRUE, has_href |-> FALSE, href |-> <<>>]

NoLink == [found |-> FALSE, has_href |-> FALSE, href |-> <<>>]

\* str.strip of spaces, as get_text(strip=True) does to an element's one string.
RECURSIVE strip(_)
strip(s) ==
    IF s = <<>> THEN s
    ELSE IF s[1] = " " THEN strip(Tail(s))
    ELSE IF s[Len(s)] = " " THEN strip(SubSeq(s, 1, Len(s) - 1))
    ELSE s

\* The title test of line 101.
is_placeholder(title) == startswith(lower(title), ShopOnEbay)

\* scrape_item without the test of lines 105-106: a price of None is kept.
scrape_item_keeping_none(it) ==
    LET title     == strip(it.title_el.text)
        p         == parse_price(it.price_el.text)
        link      == IF it.link_el.has_href THEN it.link_el.href ELSE <<>>
        shipping  == IF it.shipping_el.found THEN strip(it.shipping_el.text) ELSE NA
        condition == IF it.condition_el.found THEN strip(it.condition_el.text) ELSE NA
    IN  IF ~it.title_el.found \/ ~it.price_el.found \/ ~it.link_el.found
        THEN [out |-> <<>>, raised |-> FALSE]
        ELSE IF is_placeholder(title) THEN [out |-> <<>>, raised |-> FALSE]
        ELSE IF p = ValueError THEN [out |-> <<>>, raised |-> TRUE]
        ELSE [out |-> << make_listing(title, p, shipping, condition, link) >>,
              raised |-> FALSE]

\* One iteration of the item loop (lines 91-135): the listings it appends, none
\* when it continues, and whether parse_price raised out of it.  A Tag is true
\* whatever its contents, so the test of line 97 reads only whether the
\* elements were found.
scrape_item(it) ==
    LET title     == strip(it.title_el.text)
        p         == parse_price(it.price_el.text)
        link      == IF it.link_el.has_href THEN it.link_el.href ELSE <<>>
        shipping  == IF it.shipping_el.found THEN strip(it.shipping_el.text) ELSE NA
        condition == IF it.condition_el.found THEN strip(it.condition_el.text) ELSE NA
    IN  IF ~it.title_el.found \/ ~it.price_el.found \/ ~it.link_el.found
        THEN [out |-> <<>>, raised |-> FALSE]
        ELSE IF is_placeholder(title) THEN [out |-> <<>>, raised |-> FALSE]
        ELSE IF p = ValueError THEN [out |-> <<>>, raised |-> TRUE]
        ELSE IF p = None THEN [out |-> <<>>, raised |-> FALSE]
        ELSE [out |-> << make_listing(title, p, shipping, condition, link) >>,
              raised |-> FALSE]

---------------------------------------------------------------------------
(* deduplicate, the ranking and the report selection. *)

\* canonical without the split: the whole link is the key.
canonical_unsplit(link) == link

\* link.split("?")[0]
canonical(link) == Slice(link, 1, RunEnd(link, 1, {c \in Range(link) : c # "?"}))

\* The for loop of deduplicate from item i on, with the keys seen and the
\* list built so far.
RECURSIVE dedup_from(_, _, _, _)
dedup_from(ls, i, seen, out) ==
    IF i > Len(ls) THEN out
    ELSE LET key == canonical(ls[i].link)
         IN  IF key \notin seen
             THEN dedup_from(ls, i + 1, seen \cup {key}, Append(out, ls[i]))
             ELSE dedup_from(ls, i + 1, seen, out)

deduplicate(ls) == dedup_from(ls, 1, {}, <<>>)

\* key_le with the score itself for its negation: the lowest score first.
key_le_ascending(a, b) ==
    \/ a.deal_score < b.deal_score
    \/ a.deal_score = b.deal_score /\ FloatLe(a.price, b.price)

\* The sort key (-deal_score, price) of line 168: whether a's key is <= b's.
key_le(a, b) ==
    \/ a.deal_score > b.deal_score
    \/ a.deal_score = b.deal_score /\ FloatLe(a.price, b.price)

\* x put into the sorted list s after every element whose key is <= x's.
RECURSIVE insert_sorted(_, _)
insert_sorted(s, x) ==
    IF s = <<>> THEN << x >>
    ELSE IF key_le(s[Len(s)], x) THEN Append(s, x)
    ELSE Append(insert_sorted(SubSeq(s, 1, Len(s) - 1), x), s[Len(s)])

\* list.sort(key = ...): a stable sort.
RECURSIVE sort_from(_, _, _)
sort_from(ls, i, out) ==
    IF i > Len(ls) THEN out ELSE sort_from(ls, i + 1, insert_sorted(out, ls[i]))

sort(ls) == sort_from(ls, 1, <<>>)

\* s[:n]
FirstN(s, n) == SubSeq(s, 1, IF Len(s) < n THEN Len(s) ELSE n)

\* select_top with the report's cap for the fallback's.
select_top_capped(ls) ==
    LET t == SelectSeq(ls, LAMBDA l : l.deal_score >= TopScore)
    IN  IF t = <<>> THEN FirstN(ls, DisplayRows) ELSE t

\* Lines 171-173.
select_top(ls) ==
    LET t == SelectSeq(ls, LAMBDA l : l.deal_score >= TopScore)
    IN  IF t = <<>> THEN FirstN(ls, FallbackRows) ELSE t

\* The rows of the report loop of line 179.
report_rows(t) == FirstN(t, DisplayRows)

---------------------------------------------------------------------------
(* The inputs: candidate nodes and pages. *)

\* A li.s-item node, as what the five select_one calls of lines 91-95 find.
Node(t, p, l, s, c) ==
    [title_el |-> t, price_el |-> p, link_el |-> l, shipping_el |-> s,
     condition_el |-> c]

TitleEls ==
    { NoEl, El(<<>>), El(<<" ", "B", "o", "s", "e", " ", "7", "0", "0", " ">>), El(<<"S", "h", "o", "p", " ", "o", "n", " ", "e", "B", "a", "y">>),
      El(<<"S", "H", "O", "P", " ", "O", "N", " ", "E", "B", "A", "Y", " ", "n", "o", "w">>), El(<<"S", "p", "e", "a", "k", "e", "r", "s">>), El(<<"A", "l", "g", "e", "b", "r", "a">>) }

PriceEls ==
    { NoEl, El(<<"$", "1", "9", "9", ".", "9", "9">>), El(<<"$", "2", "0", "0", ".", "0", "0">>), El(<<"$", "3", "4", "9", ".", "9", "9">>), El(<<"$", "3", "5", "0">>),
      El(<<"$", "8", "0", ".", "0", "0", " ", "t", "o", " ", "$", "1", "2", "0", ".", "0", "0">>), El(<<"F", "r", "e", "e">>), El(<<"$", ",">>), El(<<"$", "1", ",", "2", "9", "9", ".", "0", "0">>) }

LinkEls == { NoLink, LinkNoHref, LinkEl(<<"/", "i", "t", "m", "/", "1", "?", "h", "a", "s", "h", "=", "a">>) }

ShippingEls == { NoEl, El(<<"F", "r", "e", "e", " ", "s", "h", "i", "p", "p", "i", "n", "g">>), El(<<"F", "R", "E", "E">>), El(<<"+", "$", "1", "0", ".", "0", "0">>) }

ConditionEls == { NoEl, El(<<"B", "r", "a", "n", "d", " ", "N", "e", "w">>), El(<<"O", "p", "e", "n", " ", "B", "o", "x">>), El(<<"P", "r", "e", "-", "O", "w", "n", "e", "d">>) }

\* Every node made of these elements: the inputs of one iteration of the item loop.
Items ==
    { Node(t, p, l, s, c) : t \in TitleEls, p \in PriceEls, l \in LinkEls,
                            s \in ShippingEls, c \in ConditionEls }

\* The nodes the pages of a run are made of.
BoseNew ==
    Node(El(<<"B", "o", "s", "e", " ", "S", "o", "u", "n", "d", "b", "a", "r", " ", "7", "0", "0", " ", "H", "o", "m", "e", " ", "T", "h", "e", "a", "t", "e", "r">>), El(<<"$", "1", "8", "0", ".", "0", "0">>),
         LinkEl(<<"/", "i", "t", "m", "/", "1", "?", "h", "a", "s", "h", "=", "a">>), El(<<"F", "r", "e", "e", " ", "s", "h", "i", "p", "p", "i", "n", "g">>), El(<<"N", "e", "w", " ", "(", "O", "t", "h", "e", "r", ")">>))

BoseAgain ==
    Node(El(<<"B", "o", "s", "e", " ", "S", "o", "u", "n", "d", "b", "a", "r", " ", "7", "0", "0", " ", "H", "o", "m", "e", " ", "T", "h", "e", "a", "t", "e", "r">>), El(<<"$", "1", "8", "0", ".", "0", "0">>),
         LinkEl(<<"/", "i", "t", "m", "/", "1", "?", "h", "a", "s", "h", "=", "b">>), El(<<"F", "r", "e", "e", " ", "s", "h", "i", "p", "p", "i", "n", "g">>), El(<<"N", "e", "w", " ", "(", "O", "t", "h", "e", "r", ")">>))

Plain250 == Node(El(<<"S", "p", "e", "a", "k", "e", "r", "s", " ", "5", ".", "1">>), El(<<"$", "2", "5", "0", ".", "0", "0">>), LinkEl(<<"/", "i", "t", "m", "/", "2">>), NoEl, NoEl)

Range80 ==
    Node(El(<<"S", "p", "e", "a", "k", "e", "r", " ", "s", "e", "t">>), El(<<"$", "8", "0", ".", "0", "0", " ", "t", "o", " ", "$", "1", "2", "0", ".", "0", "0">>), LinkEl(<<"/", "i", "t", "m", "/", "3", "?", "x">>),
         El(<<"+", "$", "1", "0", ".", "0", "0">>), El(<<"P", "r", "e", "-", "O", "w", "n", "e", "d">>))

EmptyTitle ==
    Node(El(<<" ", " ">>), El(<<"$", "9", "9", ".", "5", "0">>), LinkNoHref, NoEl, NoEl)

NoTitle == Node(NoEl, El(<<"$", "9", "9">>), LinkEl(<<"/", "i", "t", "m", "/", "4">>), NoEl, NoEl)

NoPrice == Node(El(<<"B", "o", "s", "e">>), NoEl, LinkEl(<<"/", "i", "t", "m", "/", "5">>), NoEl, NoEl)

NoLinkNode == Node(El(<<"B", "o", "s", "e">>), El(<<"$", "9", "9">>), NoLink, NoEl, NoEl)

Placeholder ==
    Node(El(<<"S", "h", "o", "p", " ", "o", "n", " ", "e", "B", "a", "y">>), El(<<"$", "2", "0", ".", "0", "0">>), LinkEl(<<"/", "i", "t", "m", "/", "6">>), NoEl, El(<<"B", "r", "a", "n", "d", " ", "N", "e", "w">>))

FreePrice == Node(El(<<"S", "o", "n", "y", " ", "s", "e", "t">>), El(<<"F", "r", "e", "e">>), LinkEl(<<"/", "i", "t", "m", "/", "7">>), NoEl, NoEl)

CommaPrice == Node(El(<<"S", "o", "n", "y", " ", "s", "e", "t">>), El(<<"$", ",">>), LinkEl(<<"/", "i", "t", "m", "/", "8">>), NoEl, NoEl)

Nodes ==
    { BoseNew, BoseAgain, Plain250, Range80, EmptyTitle, NoTitle, NoPrice,
      NoLinkNode, Placeholder, FreePrice, CommaPrice }

\* The sequences over S of length at most n.
SeqsUpTo(S, n) == UNION { [1..k -> S] : k \in 0..n }

\* Nodes that each give a listing, some with the same canonical link.
QueryOnly ==
    Node(El(<<"Y", "a", "m", "a", "h", "a", " ", "7", ".", "1">>), El(<<"$", "3", "4", "0", ".", "0", "0">>), LinkEl(<<"?", "q", "=", "1">>), NoEl, El(<<"O", "p", "e", "n", " ", "B", "o", "x">>))

PlainCheaper ==
    Node(El(<<"S", "p", "e", "a", "k", "e", "r", "s", " ", "5", ".", "1">>), El(<<"$", "1", "5", "0", ".", "2", "5">>), LinkEl(<<"/", "i", "t", "m", "/", "2", "?", "z">>), El(<<"F", "r", "e", "e">>), NoEl)

DupNodes ==
    { BoseNew, BoseAgain, Plain250, PlainCheaper, Range80, EmptyTitle, QueryOnly }

DigitChar == <<"0", "1", "2", "3", "4", "5", "6", "7", "8", "9">>

\* The i-th node of a long run of distinct items: "$100" to "$350" in steps of
\* 50, a brand in the title or not.
BulkNode(i, brand) ==
    LET n == 100 + 50 * (i % 6)
    IN  Node(El(IF brand THEN <<"K", "l", "i", "p", "s", "c", "h", " ", "s", "e", "t">> ELSE <<"S", "p", "e", "a", "k", "e", "r", " ", "s", "e", "t">>),
             El(<< "$", DigitChar[(n \div 100) + 1], DigitChar[((n \div 10) % 10) + 1],
                   DigitChar[(n % 10) + 1] >>),
             LinkEl(<<"/", "i", "t", "m", "/">> \o << DigitChar[(i \div 10) + 1], DigitChar[(i % 10) + 1] >>),
             NoEl, NoEl)

\* A long page: plain nodes first, then h nodes with a brand.
BulkNodes(h, plain) ==
    [i \in 1..(h + plain) |-> BulkNode(i, i > plain)]

---------------------------------------------------------------------------
(* Bounds of the runs. *)

\* The most candidate nodes on the pages of one run.
MaxNodes == 3

\* The longest list of listings with shared links drawn for deduplicate.
MaxDup == 3

\* The most listings with, and the most without, a brand in a long list.
MaxBulk == 21

---------------------------------------------------------------------------
(* The run: main and scrape_listings. *)

\* No node: the item loop is not running.
Idle == Node(NoEl, NoEl, NoLink, NoEl, NoEl)

\* Every node of the inputs.
AllNodes ==
    Nodes \cup DupNodes
    \cup { BulkNode(i, b) : i \in 1..(2 * (MaxBulk + 1)), b \in BOOLEAN }

\* scrape_item, tabulated over the nodes.
item_result == [n \in AllNodes |-> scrape_item(n)]

\* The item loop over a page's nodes, in node order, from the list `acc`: it
\* stops at the node where parse_price raises, which `at` names.
RECURSIVE scrape_items(_, _)
scrape_items(items, acc) ==
    IF items = <<>> THEN [out |-> acc, raised |-> FALSE, at |-> Idle]
    ELSE LET r == item_result[Head(items)]
         IN  IF r.raised THEN [out |-> acc, raised |-> TRUE, at |-> Head(items)]
             ELSE scrape_items(Tail(items), acc \o r.out)

NoRuns == [dedup |-> 0, sort |-> 0, report |-> 0]

\* The locals and counters as they are before the first request.
InitRun ==
    /\ query_ix = 1
    /\ page = 1
    /\ listings = <<>>
    /\ requests = <<>>
    /\ last_event = "start"
    /\ unique = <<>>
    /\ top = <<>>
    /\ shown = <<>>
    /\ runs = NoRuns

Init ==
    /\ InitRun
    /\ pc = "fetch"
    /\ all_listings = <<>>
    /\ scraped = <<>>
    /\ examined = 0
    /\ text = <<>>
    /\ price = None
    /\ item = Idle

\* The end of one iteration of the page loop (line 76), with `ls` the local
\* list: the next page, or the return to main (lines 139, 161-163) and its
\* next query, or the end of the query loop.
next_page(ls) ==
    IF page < max_pages
    THEN /\ page' = page + 1
         /\ listings' = ls
         /\ pc' = "fetch"
         /\ UNCHANGED << query_ix, all_listings, scraped >>
    ELSE /\ page' = 1
         /\ listings' = <<>>
         /\ all_listings' = all_listings \o ls
         /\ IF query_ix < Len(SEARCH_QUERIES)
            THEN /\ query_ix' = query_ix + 1
                 /\ pc' = "fetch"
                 /\ UNCHANGED scraped
            ELSE /\ pc' = "dedup"
                 /\ scraped' = all_listings \o ls
                 /\ UNCHANGED query_ix

\* requests.get raises, or raise_for_status does: lines 80-85, the continue included.
FetchFail ==
    /\ pc = "fetch"
    /\ requests' = Append(requests, build_url(SEARCH_QUERIES[query_ix], page))
    /\ last_event' = "fetch"
    /\ next_page(listings)
    /\ UNCHANGED << examined, unique, top, shown, runs, text, price, item >>

\* The request succeeds and the page holds `items`: lines 80-135.  An uncaught
\* ValueError leaves scrape_listings and main.
fetched(items) ==
    LET r == scrape_items(items, listings)
    IN  /\ pc = "fetch"
        /\ requests' = Append(requests, build_url(SEARCH_QUERIES[query_ix], page))
        /\ last_event' = "fetch"
        /\ examined' = examined + Len(items)
        /\ listings' = r.out
        /\ pc' = IF r.raised THEN "raised" ELSE "sleep"
        /\ item' = r.at
        /\ UNCHANGED << query_ix, page, all_listings, scraped, unique, top, shown,
                        runs, text, price >>

FetchOk == \E items \in SeqsUpTo(Nodes, MaxNodes - examined) : fetched(items)

\* time.sleep(1.5), line 137, and the end of the iteration.
Sleep ==
    /\ pc = "sleep"
    /\ last_event' = "sleep"
    /\ next_page(listings)
    /\ UNCHANGED << requests, examined, unique, top, shown, runs, text, price, item >>

\* Line 165.
Deduplicate ==
    /\ pc = "dedup"
    /\ unique' = deduplicate(all_listings)
    /\ all_listings' = deduplicate(all_listings)
    /\ runs' = [runs EXCEPT !.dedup = @ + 1]
    /\ pc' = "sort"
    /\ UNCHANGED << query_ix, page, listings, requests, last_event, examined,
                    scraped, top, shown, text, price, item >>

\* Line 168.
Sort ==
    /\ pc = "sort"
    /\ all_listings' = sort(all_listings)
    /\ runs' = [runs EXCEPT !.sort = @ + 1]
    /\ pc' = "select"
    /\ UNCHANGED << query_ix, page, listings, requests, last_event, examined,
                    scraped, unique, top, shown, text, price, item >>

\* Lines 171-173.
SelectTop ==
    /\ pc = "select"
    /\ top' = select_top(all_listings)
    /\ pc' = "report"
    /\ UNCHANGED << query_ix, page, listings, all_listings, requests, last_event,
                    examined, scraped, unique, shown, runs, text, price, item >>

\* Lines 175-191.
Report ==
    /\ pc = "report"
    /\ shown' = report_rows(top)
    /\ runs' = [runs EXCEPT !.report = @ + 1]
    /\ pc' = "done"
    /\ UNCHANGED << query_ix, page, listings, all_listings, requests, last_event,
                    examined, scraped, unique, top, text, price, item >>

Next == FetchFail \/ FetchOk \/ Sleep \/ Deduplicate \/ Sort \/ SelectTop \/ Report

Spec == Init /\ [][Next]_vars

---------------------------------------------------------------------------
(* parse_price alone, on every short text over the characters the pattern *)
(* tells apart, and on the texts of the documented examples.               *)

PriceChars == {"$", "0", "8", ",", ".", "t"}

PriceTexts ==
    SeqsUpTo(PriceChars, MaxLen)
    \cup { <<"$", "1", "4", "9", ".", "9", "9">>, <<"$", "8", "0", ".", "0", "0", " ", "t", "o", " ", "$", "1", "2", "0", ".", "0", "0">>, <<"$", "1", ",", "2", "9", "9", ".", "0", "0">>, <<"F", "r", "e", "e">>, <<"$", ",", " ", "$", "5">> }

InitPrice ==
    /\ InitRun
    /\ pc = "parse"
    /\ all_listings = <<>>
    /\ scraped = <<>>
    /\ examined = 0
    /\ text \in PriceTexts
    /\ price = None
    /\ item = Idle

ParsePrice ==
    /\ pc = "parse"
    /\ price' = parse_price(text)
    /\ pc' = "parsed"
    /\ UNCHANGED << query_ix, page, listings, all_listings, requests, last_event,
                    examined, scraped, unique, top, shown, runs, text, item >>

SpecPrice == InitPrice /\ [][ParsePrice]_vars

---------------------------------------------------------------------------
(* One iteration of the item loop alone, on every node in Items. *)

InitItem ==
    /\ InitRun
    /\ pc = "item"
    /\ all_listings = <<>>
    /\ scraped = <<>>
    /\ examined = 0
    /\ text = <<>>
    /\ price = None
    /\ item \in Items

ExamineItem ==
    /\ pc = "item"
    /\ listings' = scrape_item(item).out
    /\ examined' = examined + 1
    /\ pc' = IF scrape_item(item).raised THEN "raised" ELSE "examined"
    /\ UNCHANGED << query_ix, page, all_listings, requests, last_event, scraped,
                    unique, top, shown, runs, text, price, item >>

SpecItem == InitItem /\ [][ExamineItem]_vars

---------------------------------------------------------------------------
(* main from line 165 on, from the lists a query loop can leave. *)

\* The pages' nodes of such a run, taken together.
TailNodes ==
    SeqsUpTo(DupNodes, MaxDup)
    \cup { BulkNodes(h, plain) : h \in 0..MaxBulk, plain \in 0..MaxBulk }

\* Every (query, page) pair has been requested when the query loop ends.
all_requests ==
    [k \in 1..(Len(SEARCH_QUERIES) * max_pages) |->
        build_url(SEARCH_QUERIES[((k - 1) \div max_pages) + 1], ((k - 1) % max_pages) + 1)]

InitTail ==
    /\ pc = "dedup"
    /\ query_ix = Len(SEARCH_QUERIES)
    /\ page = 1
    /\ listings = <<>>
    /\ requests = all_requests
    /\ last_event = "sleep"
    /\ \E ns \in TailNodes :
          LET r == scrape_items(ns, <<>>)
          IN  /\ all_listings = r.out
              /\ scraped = r.out
              /\ examined = Len(ns)
    /\ unique = <<>>
    /\ top = <<>>
    /\ shown = <<>>
    /\ runs = NoRuns
    /\ text = <<>>
    /\ price = None
    /\ item = Idle

NextTail == Deduplicate \/ Sort \/ SelectTop \/ Report

SpecTail == InitTail /\ [][NextTail]_vars

---------------------------------------------------------------------------
(* The vocabulary of the properties. *)

IsPrefix(s, t) == Len(s) <= Len(t) /\ \A i \in 1..Len(s) : s[i] = t[i]

\* The k-th smallest element of a set of numbers.
Kth(S, k) == CHOOSE i \in S : Cardinality({j \in S : j <= i}) = k

\* The elements of s at the positions in S, in the order of s.
Picked(s, S) == [k \in 1..Cardinality(S) |-> s[Kth(S, k)]]

Count(s, x) == Cardinality({i \in 1..Len(s) : s[i] = x})

\* A link with everything from its first "?" on removed.
KeyOf(link) ==
    LET qs == {i \in 1..Len(link) : link[i] = "?"}
    IN  IF qs = {} THEN link
        ELSE SubSeq(link, 1, (CHOOSE i \in qs : \A j \in qs : i <= j) - 1)

\* A price below a whole number n.
Below(p, n) == p.m < n * Pow10(p.e)

---------------------------------------------------------------------------
(* C1: every fetch attempt after the first is issued with the delay of     *)
(* time.sleep(1.5) performed since the attempt before it, whether that      *)
(* attempt succeeded or failed.                                            *)

C1_DelayBeforeEveryNextFetch ==
    [][ (Len(requests') = Len(requests) + 1 /\ requests # <<>>)
            => last_event = "sleep" ]_vars

(* C2: no outcome of a page aborts the run: it never ends in an uncaught    *)
(* exception, deduplicate, the sort and the report never run twice, and a   *)
(* run that has ended has run each of them once.                            *)

C2_AlwaysReachesTheReport ==
    /\ pc # "raised"
    /\ runs.dedup <= 1 /\ runs.sort <= 1 /\ runs.report <= 1
    /\ pc = "done" => runs = [dedup |-> 1, sort |-> 1, report |-> 1]

(* C3: the requests issued are the (query, page) pairs in query order and   *)
(* page order, each once: always a prefix of that enumeration, and all of   *)
(* it once the run has left the query loop, however it left it.             *)

C3_RequestsAreTheEnumeration ==
    /\ IsPrefix(requests, all_requests)
    /\ pc \notin {"fetch", "sleep"} => requests = all_requests

(* C4: parse_price returns the number the first currency amount of the text *)
(* denotes, its "$" and "," removed, when the text holds a currency amount  *)
(* ("$", then digits and separators, then an optional fraction), and None   *)
(* when it holds none; it never raises.                                     *)

C4_ParsePriceValue ==
    pc = "parsed" =>
        LET starts == {i \in 1..(Len(text) - 1) :
                           text[i] = "$" /\ text[i + 1] \in Digits \cup {","}}
            first  == CHOOSE i \in starts : \A j \in starts : i <= j
            amount == SubSeq(text, first, MatchEnd(text, first))
            digits == SelectSeq(amount, LAMBDA c : c \in Digits)
            dots   == {i \in 1..Len(amount) : amount[i] = "."}
            places == IF dots = {} THEN 0
                      ELSE Len(amount) - (CHOOSE i \in dots : TRUE)
        IN  IF starts = {} THEN price = None
            ELSE /\ price.kind = "float"
                 /\ price.m * Pow10(places) = DecimalValue(digits) * Pow10(price.e)

(* C5: a retained listing's deal_score is 3 for a brand of the allow-list   *)
(* in its lowercased title, plus 2 for "free" in its lowercased shipping,   *)
(* plus 2 for a price below 200 or else 1 for a price below 350, plus 1 for *)
(* "new" or "open box" in its lowercased condition; it lies in 0..8, and    *)
(* brand_match is true exactly when the 3 was added.                        *)

C5_DealScore ==
    \A i \in 1..Len(listings) :
        LET l     == listings[i]
            brand == \E b \in Range(QUALITY_BRANDS) : Contains(lower(l.title), b)
            ship  == IF Contains(lower(l.shipping), <<"f", "r", "e", "e">>) THEN 2 ELSE 0
            tier  == IF Below(l.price, 200) THEN 2
                     ELSE IF Below(l.price, 350) THEN 1 ELSE 0
            cond  == IF \/ Contains(lower(l.condition), <<"n", "e", "w">>)
                        \/ Contains(lower(l.condition), <<"o", "p", "e", "n", " ", "b", "o", "x">>)
                     THEN 1 ELSE 0
        IN  /\ l.deal_score = (IF brand THEN 3 ELSE 0) + ship + tier + cond
            /\ l.deal_score \in 0..8
            /\ l.brand_match = brand

\* A node with a brand, free shipping, a price below 200 and a new condition
\* has been examined and scores 8, and its price is the one its text gives.
C5_Witness ==
    /\ pc = "examined"
    /\ Len(listings) = 1
    /\ listings[1].deal_score = 8
    /\ listings[1].brand_match
    /\ listings[1].price = Float(19999, 2)

(* C6: deduplicate returns the listings of its input that are the first     *)
(* with their canonical link (the link up to its first "?"), in input       *)
(* order: no two of them share a canonical link, every canonical link of    *)
(* the input is among them, and deduplicate leaves its own result as it is. *)

C6_Deduplicate ==
    runs.dedup = 1 =>
        LET firsts == {i \in 1..Len(scraped) :
                          \A j \in 1..(i - 1) :
                              KeyOf(scraped[j].link) # KeyOf(scraped[i].link)}
        IN  /\ unique = Picked(scraped, firsts)
            /\ \A i, j \in 1..Len(unique) :
                   KeyOf(unique[i].link) = KeyOf(unique[j].link) => i = j
            /\ \A i \in 1..Len(scraped) : \E j \in 1..Len(unique) :
                   KeyOf(unique[j].link) = KeyOf(scraped[i].link)
            /\ deduplicate(unique) = unique

\* deduplicate has dropped a later listing of a link and kept two others.
C6_Witness ==
    /\ runs.dedup = 1
    /\ Len(scraped) = 3
    /\ Len(unique) = 2
    /\ unique[1] = scraped[1]
    /\ unique[2] = scraped[3]

(* C7: after the sort the list holds the deduplicated listings, each as     *)
(* often as before, and of two neighbours the first has the greater or      *)
(* equal deal_score and, when the scores are equal, the lesser or equal     *)
(* price.                                                                   *)

C7_Ranked ==
    runs.sort = 1 =>
        /\ Len(all_listings) = Len(unique)
        /\ \A x \in Range(unique) : Count(all_listings, x) = Count(unique, x)
        /\ \A i \in 1..(Len(all_listings) - 1) :
               LET a == all_listings[i]
                   b == all_listings[i + 1]
               IN  /\ a.deal_score >= b.deal_score
                   /\ a.deal_score = b.deal_score
                          => a.price.m * Pow10(b.price.e) <= b.price.m * Pow10(a.price.e)

\* The sort has moved listings, and two neighbours of equal score have
\* different prices.
C7_Witness ==
    /\ runs.sort = 1
    /\ all_listings # unique
    /\ \E i \in 1..(Len(all_listings) - 1) :
           /\ all_listings[i].deal_score = all_listings[i + 1].deal_score
           /\ all_listings[i].price # all_listings[i + 1].price

(* C8: the report selects the ranked listings of deal_score 3 or more, in   *)
(* ranked order, or, when there is none, the first 15 ranked listings (all  *)
(* if fewer); it prints the first 20 of the selection (all if fewer), so    *)
(* never more than 20 rows, and none when nothing was scraped.              *)

C8_ReportSelection ==
    pc = "done" =>
        LET good == {i \in 1..Len(all_listings) : all_listings[i].deal_score >= 3}
            few  == IF Len(all_listings) < 15 THEN Len(all_listings) ELSE 15
            rows == IF Len(top) < 20 THEN Len(top) ELSE 20
        IN  /\ good # {} => top = Picked(all_listings, good)
            /\ good = {} => top = SubSeq(all_listings, 1, few)
            /\ shown = SubSeq(top, 1, rows)
            /\ Len(shown) <= 20
            /\ all_listings = <<>> => shown = <<>>

\* No listing reaches 3, more than 15 were ranked, and 15 are selected and shown.
C8_Witness ==
    /\ pc = "done"
    /\ Len(all_listings) > 15
    /\ \A i \in 1..Len(all_listings) : all_listings[i].deal_score < 3
    /\ Len(top) = 15
    /\ Len(shown) = 15

(* C9: every listing of every list has a price that is a number and not     *)
(* negative; and a list only ever gains listings at its end or hands its    *)
(* listings on as they are: no step changes a listing or makes one up       *)
(* outside the item loop.                                                   *)

PricesAreNumbers ==
    \A ls \in {listings, all_listings, scraped, unique, top, shown} :
        \A i \in 1..Len(ls) : ls[i].price.kind = "float" /\ ls[i].price.m >= 0

ListingsAreKept ==
    /\ pc = "fetch" =>
           \/ IsPrefix(listings, listings') /\ all_listings' = all_listings
           \/ listings' = <<>> /\ all_listings' = all_listings \o listings
    /\ pc = "sleep" =>
           \/ listings' = listings /\ all_listings' = all_listings
           \/ listings' = <<>> /\ all_listings' = all_listings \o listings
    /\ pc \notin {"fetch", "sleep"} =>
           /\ listings' = listings
           /\ Range(all_listings') \subseteq Range(all_listings)
    /\ Range(unique') \subseteq Range(unique) \cup Range(all_listings)
    /\ Range(top') \subseteq Range(top) \cup Range(all_listings)
    /\ Range(shown') \subseteq Range(shown) \cup Range(top)

C9_PricedAndKept == []PricesAreNumbers /\ [][ListingsAreKept]_vars

\* A run has ended after a page on which one node was dropped and two were
\* kept: both are in the report.
C9_Witness ==
    /\ pc = "done"
    /\ examined = 3
    /\ Len(scraped) = 2
    /\ Len(shown) = 2

(* C10: a node gives no listing when select_one finds no title, no price or *)
(* no link in it, or when its title starts with "shop on ebay" in any case; *)
(* any other node whose price parses gives one listing, with "N/A" for an   *)
(* absent shipping or condition; and a listing has a non-empty title and    *)
(* comes from a node with a link.                                           *)

C10_ItemToListing ==
    pc = "examined" =>
        LET lacks == ~item.title_el.found \/ ~item.price_el.found \/ ~item.link_el.found
            shop  == startswith(lower(strip(item.title_el.text)), <<"s", "h", "o", "p", " ", "o", "n", " ", "e", "b", "a", "y">>)
        IN  /\ (lacks \/ shop) => listings = <<>>
            /\ (~lacks /\ ~shop /\ parse_price(item.price_el.text).kind = "float")
                   => /\ Len(listings) = 1
                      /\ ~item.shipping_el.found => listings[1].shipping = <<"N", "/", "A">>
                      /\ ~item.condition_el.found => listings[1].condition = <<"N", "/", "A">>
            /\ \A i \in 1..Len(listings) :
                   listings[i].title # <<>> /\ item.link_el.found

====
